---- MODULE Spec2Model ----
(***************************************************************************)
(* Student Math Score Predictor (src/app.py): a Streamlit script that is   *)
(* re-executed top to bottom on every view and on every form submission.   *)
(* One script run is modelled as a chain of steps (pc), the browser        *)
(* session (widget values, what is on the page) and the process-wide       *)
(* resource cache live across runs.                                        *)
(*                                                                         *)
(* Floats are fixed-point integers: Unit stands for 1.0.  Every number of  *)
(* the schemas below is a multiple of Unit/2, for which the divisions by 2 *)
(* and by 100 of the script are exact.                                     *)
(***************************************************************************)
EXTENDS Integers, Sequences, FiniteSets, TLC

\* ---------------------------------------------------------------- bounds
MaxOrderLen == 2        \* longest feature_order enumerated
MaxSubmits  == 2        \* submissions followed in one session

\* ------------------------------------------------------------- constants
Unit == 2 * 100         \* 1.0 in fixed point
MODEL_PATH  == "models/student_model_linear.joblib"
SCHEMA_PATH == "models/schema.json"

\* ---------------------------------------------------------------- values
\* A Python scalar: None, a str or a float.
None   == [t |-> "null", s |-> "", n |-> 0]
Str(s) == [t |-> "str", s |-> s, n |-> 0]
Num(n) == [t |-> "num", s |-> "", n |-> n]

Max(a, b) == IF a >= b THEN a ELSE b

\* dict.get(k, d) on a JSON object / Python dict
Get(d, k, dflt) == IF k \in DOMAIN d THEN d[k] ELSE dflt

\* A feature_order entry that is a JSON array: a Python list, unhashable.
ListKey == "[list]"
Hashable(k) == k # ListKey

\* ------------------------------------------------------- schema documents
\* JSON objects keep their key order: categorical and numeric_ranges are
\* sequences of entries with distinct names.
CatDocs ==
  { << [name |-> "school", options |-> <<"GP", "MS">>] >>,
    << [name |-> "school", options |-> <<>>] >>,
    << [name |-> "school", options |-> <<"MS", "GP">>],
       [name |-> "notes",  options |-> <<>>] >> }

Ranges ==
  { [min |-> 0, max |-> 2 * Unit, median |-> Unit],
    [min |-> 100 * Unit],
    [max |-> 200 * Unit],
    [min |-> 0, max |-> 2 * Unit, median |-> 3 * Unit] }

NumDocs == { <<>> } \cup { << [name |-> "age", rng |-> r] >> : r \in Ranges }

OrderKeys == { "age", "school", ListKey }

SeqsUpTo(S, n) == UNION { [1..k -> S] : k \in 0..n }

Schemas ==
  { [categorical |-> c, numeric_ranges |-> r, feature_order |-> fo,
     target |-> "math_score"] :
      c \in CatDocs, r \in NumDocs, fo \in SeqsUpTo(OrderKeys, MaxOrderLen) }

\* The serialized estimator: it was fitted on the columns `expects` and its
\* encoder knows the categories `known`.
Models ==
  { [expects |-> <<"age", "school">>, known |-> {"GP"}, intercept |-> 10 * Unit],
    [expects |-> <<"school">>, known |-> {"GP", "MS"}, intercept |-> 0] }

\* what the user can type
TextChoices == { "GP" }
NumChoices  == { 2 * Unit, 3 * Unit }

\* ------------------------------------------------------------ form builder
Control(name, kind, options, mn, mx, step, value) ==
  [name |-> name, kind |-> kind, options |-> options,
   min |-> mn, max |-> mx, step |-> step, value |-> value]

\* st.text_input / st.selectbox of the categorical loop: the widget keeps
\* the session's value when it has one, else its default.
CatControl_lastdefault(c, options, state) ==
  IF options = <<>>
    THEN Control(c, "text_input", <<>>, 0, 0, 0, Get(state, c, Str("")))
    ELSE Control(c, "selectbox", options, 0, 0, 0,
                 Get(state, c, Str(options[Len(options)])))

CatControl(c, options, state) ==
  IF options = <<>>
    THEN Control(c, "text_input", <<>>, 0, 0, 0, Get(state, c, Str("")))
    ELSE LET default_idx == 0
         IN  Control(c, "selectbox", options, 0, 0, 0,
                     Get(state, c, Str(options[default_idx + 1])))

\* the default of a numeric control
Median(rng) ==
  LET mn == Get(rng, "min", 0)
      mx == Get(rng, "max", 100 * Unit)
  IN  Get(rng, "median", (mn + mx) \div 2)

NumControl_nowiden(c, rng, state) ==
  LET mn   == Get(rng, "min", 0)
      mx   == Get(rng, "max", 100 * Unit)
      step == Max(Unit, (mx - mn) \div 100)
  IN  Control(c, "number_input", <<>>, mn, mx, step, Get(state, c, Num(Median(rng))))

NumControl(c, rng, state) ==
  LET mn   == Get(rng, "min", 0)
      mx0  == Get(rng, "max", 100 * Unit)
      mx   == IF mn = mx0 THEN mn + Unit ELSE mx0
      step == Max(Unit, (mx - mn) \div 100)
  IN  Control(c, "number_input", <<>>, mn, mx, step, Get(state, c, Num(Median(rng))))

\* st.number_input rejects its arguments when the bounds are inverted or
\* the value argument is outside them.
NumberInputRaises_unchecked(ctl, med) == FALSE

NumberInputRaises(ctl, med) ==
  \/ ctl.min > ctl.max
  \/ med < ctl.min
  \/ med > ctl.max

RECURSIVE RenderCats(_, _)
RenderCats(entries, state) ==
  IF entries = <<>> THEN <<>>
  ELSE <<CatControl(Head(entries).name, Head(entries).options, state)>>
         \o RenderCats(Tail(entries), state)

\* the numeric loop stops at the first control that raises
RECURSIVE RenderNums(_, _)
RenderNums(entries, state) ==
  IF entries = <<>> THEN [controls |-> <<>>, raised |-> FALSE]
  ELSE LET e   == Head(entries)
           ctl == NumControl(e.name, e.rng, state)
       IN  IF NumberInputRaises(ctl, Median(e.rng))
             THEN [controls |-> <<>>, raised |-> TRUE]
             ELSE LET rest == RenderNums(Tail(entries), state)
                  IN  [controls |-> <<ctl>> \o rest.controls, raised |-> rest.raised]

\* inputs[c] = <widget value>, a later assignment to the same key wins
InputsOf(ctls) ==
  [c \in { ctls[i].name : i \in DOMAIN ctls } |->
     LET last == CHOOSE i \in DOMAIN ctls :
                   /\ ctls[i].name = c
                   /\ \A j \in DOMAIN ctls : ctls[j].name = c => j <= i
     IN  ctls[last].value]

\* --------------------------------------------------------------- predictor
\* keys of {k: ... for k in feature_order}: first occurrence order
RECURSIVE DictKeys(_)
DictKeys(fo) ==
  IF fo = <<>> THEN <<>>
  ELSE LET init == DictKeys(SubSeq(fo, 1, Len(fo) - 1))
           k    == fo[Len(fo)]
       IN  IF \E i \in DOMAIN init : init[i] = k THEN init ELSE Append(init, k)

\* hashing a key of the comprehension raises TypeError on a list
RowRaises(fo) == \E i \in DOMAIN fo : ~Hashable(fo[i])

\* pd.DataFrame([row]): one row, columns in the dict's key order
DataFrame(fo, inp) ==
  LET keys == DictKeys(fo)
  IN  [columns |-> keys, values |-> [i \in DOMAIN keys |-> Get(inp, keys[i], None)]]

\* model.predict(X): the pipeline rejects a frame whose columns are not the
\* fitted ones, a missing value and a category its encoder never saw
PredictRaises(m, df) ==
  \/ df.columns # m.expects
  \/ \E i \in DOMAIN df.values :
       \/ df.values[i].t = "null"
       \/ df.values[i].t = "str" /\ df.values[i].s \notin m.known

RECURSIVE SumNums(_)
SumNums(vals) ==
  IF vals = <<>> THEN 0
  ELSE (IF Head(vals).t = "num" THEN Head(vals).n ELSE 0) + SumNums(Tail(vals))

PredictValue(m, df) == m.intercept + SumNums(df.values)

\* what is painted on the page
Msg(widget, template, arg, num) ==
  [widget |-> widget, template |-> template, arg |-> arg, num |-> num]

\* ------------------------------------------------------------------ state
VARIABLES
  modelFile, schemaFile,   \* do the two files exist
  diskSchema, diskModel,   \* their contents
  cache,                   \* st.cache_resource entry: <<>> or <<[model, schema]>>
  diskReads,               \* executions of the body of load_model_and_schema
  widgets,                 \* session values of the widgets the user has set
  pc,                      \* position of the running script, "idle" between runs
  submitted,               \* value of st.form_submit_button in this run
  loadCalled,              \* load_model_and_schema was called in this run
  controls,                \* controls rendered in this run
  inputs,                  \* the dict `inputs`
  formShown,               \* the submit button is on the page
  X,                       \* <<>> or <<the DataFrame>>
  messages,                \* st.error / st.success / ... of this run
  uncaught,                \* "" or where an uncaught exception ended the run
  submits,                 \* submissions that passed both require() calls
  predictCalls,            \* calls of model.predict
  failedBefore             \* some earlier model.predict raised

vars == << modelFile, schemaFile, diskSchema, diskModel, cache, diskReads,
           widgets, pc, submitted, loadCalled, controls, inputs,
           formShown, X, messages, uncaught, submits, predictCalls,
           failedBefore >>

env     == << modelFile, schemaFile, diskSchema, diskModel >>
session == << widgets >>
counts  == << submits, predictCalls, failedBefore >>

EmptyDict == [k \in {} |-> None]

Init ==
  /\ modelFile \in BOOLEAN
  /\ schemaFile \in BOOLEAN
  /\ diskSchema \in Schemas
  /\ diskModel \in Models
  /\ cache = <<>>
  /\ diskReads = 0
  /\ widgets = EmptyDict
  /\ pc = "idle"
  /\ submitted = FALSE
  /\ loadCalled = FALSE
  /\ controls = <<>>
  /\ inputs = EmptyDict
  /\ formShown = FALSE
  /\ X = <<>>
  /\ messages = <<>>
  /\ uncaught = ""
  /\ submits = 0
  /\ predictCalls = 0
  /\ failedBefore = FALSE

\* ---------------------------------------------------------------- actions
\* A file is uploaded to or removed from the deployment between two runs.
SetFiles ==
  /\ pc = "idle"
  /\ \E m \in BOOLEAN, s \in BOOLEAN :
       /\ <<m, s>> # <<modelFile, schemaFile>>
       /\ modelFile' = m
       /\ schemaFile' = s
  /\ UNCHANGED << diskSchema, diskModel, cache, diskReads, session, pc,
                  submitted, loadCalled, controls, inputs, formShown, X,
                  messages, uncaught, counts >>

\* A script run starts from the top with fresh module globals.
ScriptRun_stale(sub) ==
  /\ pc = "idle"
  /\ pc' = "require_model"
  /\ submitted' = sub
  /\ loadCalled' = FALSE
  /\ controls' = <<>>
  /\ inputs' = EmptyDict
  /\ formShown' = FALSE
  /\ uncaught' = ""
  /\ UNCHANGED << X, messages >>
  /\ UNCHANGED << env, cache, diskReads, session, counts >>

ScriptRun(sub) ==
  /\ pc = "idle"
  /\ pc' = "require_model"
  /\ submitted' = sub
  /\ loadCalled' = FALSE
  /\ controls' = <<>>
  /\ inputs' = EmptyDict
  /\ formShown' = FALSE
  /\ X' = <<>>
  /\ messages' = <<>>
  /\ uncaught' = ""
  /\ UNCHANGED << env, cache, diskReads, session, counts >>

\* first view of the page, or a reload
View == ScriptRun(FALSE)

\* the user clicks "Predict"
Submit ==
  /\ formShown
  /\ submits < MaxSubmits
  /\ ScriptRun(TRUE)

\* The user changes a control of the form; inside st.form this triggers no
\* run.  A selectbox offers its options, a number_input its [min, max].
Edit ==
  /\ pc = "idle"
  /\ formShown
  /\ \E i \in DOMAIN controls :
       LET ctl == controls[i]
       IN  \E v \in { Str(s) : s \in TextChoices \cup {"MS"} }
                      \cup { Num(n) : n \in NumChoices } :
             /\ v # Get(widgets, ctl.name, ctl.value)
             /\ CASE ctl.kind = "selectbox" ->
                       v.t = "str" /\ \E j \in DOMAIN ctl.options : ctl.options[j] = v.s
                  [] ctl.kind = "text_input" ->
                       v.t = "str" /\ v.s \in TextChoices
                  [] OTHER ->
                       v.t = "num" /\ ctl.min <= v.n /\ v.n <= ctl.max
             /\ widgets' = [c \in DOMAIN widgets \cup {ctl.name} |->
                              IF c = ctl.name THEN v ELSE widgets[c]]
  /\ UNCHANGED << env, cache, diskReads, pc, submitted, loadCalled, controls,
                  inputs, formShown, X, messages, uncaught, counts >>

\* require(path, kind): st.error and st.stop when the file is missing
require_nostop(exists, path, kind, next) ==
  /\ IF exists
       THEN UNCHANGED messages
       ELSE messages' = Append(messages, Msg("error", "file_missing", path, 0))
  /\ pc' = next

require(exists, path, kind, next) ==
  IF exists
    THEN /\ pc' = next
         /\ UNCHANGED messages
    ELSE /\ messages' = Append(messages, Msg("error", "file_missing", path, 0))
         /\ pc' = "idle"

RequireModel ==
  /\ pc = "require_model"
  /\ require(modelFile, MODEL_PATH, "Model", "require_schema")
  /\ UNCHANGED << env, cache, diskReads, session, submitted, loadCalled,
                  controls, inputs, formShown, X, uncaught, counts >>

RequireSchema ==
  /\ pc = "require_schema"
  /\ require(schemaFile, SCHEMA_PATH, "Schema", "load")
  /\ submits' = IF submitted /\ pc' = "load" THEN submits + 1 ELSE submits
  /\ UNCHANGED << env, cache, diskReads, session, submitted, loadCalled,
                  controls, inputs, formShown, X, uncaught, predictCalls,
                  failedBefore >>

\* @st.cache_resource load_model_and_schema(): the body runs on a miss only
load_model_and_schema_uncached ==
  /\ cache' = << [model |-> diskModel, schema |-> diskSchema] >>
  /\ diskReads' = diskReads + 1

load_model_and_schema ==
  IF cache = <<>>
    THEN /\ cache' = << [model |-> diskModel, schema |-> diskSchema] >>
         /\ diskReads' = diskReads + 1
    ELSE UNCHANGED << cache, diskReads >>

Load ==
  /\ pc = "load"
  /\ load_model_and_schema
  /\ loadCalled' = TRUE
  /\ pc' = "form"
  /\ UNCHANGED << env, session, submitted, controls, inputs, formShown, X,
                  messages, uncaught, counts >>

model  == cache[1].model
schema == cache[1].schema

\* with st.form("student_form"): both loops and the submit button
BuildForm ==
  /\ pc = "form"
  /\ LET cats == RenderCats(schema.categorical, widgets)
         nums == RenderNums(schema.numeric_ranges, widgets)
         ctls == cats \o nums.controls
     IN  /\ controls' = ctls
         /\ inputs' = InputsOf(ctls)
         /\ IF nums.raised
              THEN /\ uncaught' = "form"
                   /\ formShown' = FALSE
                   /\ pc' = "idle"
              ELSE /\ uncaught' = uncaught
                   /\ formShown' = TRUE
                   /\ pc' = IF submitted THEN "assemble" ELSE "expander"
  /\ UNCHANGED << env, cache, diskReads, session, submitted, loadCalled, X,
                  messages, counts >>

\* row = {k: inputs.get(k) for k in feature_order}; X = pd.DataFrame([row])
AssembleRow ==
  /\ pc = "assemble"
  /\ IF RowRaises(schema.feature_order)
       THEN /\ uncaught' = "assemble"
            /\ pc' = "idle"
            /\ X' = X
       ELSE /\ X' = << DataFrame(schema.feature_order, inputs) >>
            /\ pc' = "predict"
            /\ uncaught' = uncaught
  /\ UNCHANGED << env, cache, diskReads, session, submitted, loadCalled,
                  controls, inputs, formShown, messages, counts >>

\* try: pred = float(model.predict(X)[0]); st.success; st.caption
\* except Exception as e: st.error; st.exception(e)
Predict ==
  /\ pc = "predict"
  /\ predictCalls' = predictCalls + 1
  /\ IF PredictRaises(model, X[1])
       THEN /\ messages' = messages \o
                 << Msg("error", "prediction_failed", "", 0),
                    Msg("exception", "detail", "predict", 0) >>
            /\ failedBefore' = TRUE
       ELSE /\ messages' = messages \o
                 << Msg("success", "estimated", schema.target,
                        PredictValue(model, X[1])),
                    Msg("caption", "pipeline", "", 0) >>
            /\ failedBefore' = failedBefore
  /\ pc' = "expander"
  /\ UNCHANGED << env, cache, diskReads, session, submitted, loadCalled,
                  controls, inputs, formShown, X, uncaught, submits >>

\* with st.expander("How it works"): static text, the run ends
Expander ==
  /\ pc = "expander"
  /\ pc' = "idle"
  /\ UNCHANGED << env, cache, diskReads, session, submitted, loadCalled,
                  controls, inputs, formShown, X, messages, uncaught, counts >>

Next ==
  \/ SetFiles
  \/ View
  \/ Submit
  \/ Edit
  \/ RequireModel
  \/ RequireSchema
  \/ Load
  \/ BuildForm
  \/ AssembleRow
  \/ Predict
  \/ Expander

Spec == Init /\ [][Next]_vars

\* ------------------------------------------------------------- properties
HasMsg(w) == \E i \in DOMAIN messages : messages[i].widget = w

FileMissingShown(path) ==
  \E i \in DOMAIN messages :
    messages[i] = Msg("error", "file_missing", path, 0)

\* the declared range of a numeric field
RngOf(name) ==
  LET i == CHOOSE j \in DOMAIN schema.numeric_ranges :
             schema.numeric_ranges[j].name = name
  IN  schema.numeric_ranges[i].rng

DeclMin(name) == Get(RngOf(name), "min", 0)
DeclMax(name) == Get(RngOf(name), "max", 100 * Unit)
EffMax(name)  == IF DeclMin(name) = DeclMax(name) THEN DeclMin(name) + Unit
                                                  ELSE DeclMax(name)

\* the form's loops have run in the current (or last) script run
FormRan == pc \in {"assemble", "predict", "expander"} \/ formShown \/ uncaught = "form"

\* C1: a run that finds the model file or the schema file missing halts at
\* that require(): load_model_and_schema is not called, no control is
\* rendered, and the one message shown carries the path of a missing file;
\* a run gets past the checks only when both files exist.
C1_RunPastChecks ==
  /\ pc = "require_schema" => modelFile
  /\ pc \in {"load", "form", "assemble", "predict", "expander"} =>
       modelFile /\ schemaFile
  /\ HasMsg("error") /\ ~HasMsg("exception") =>
       /\ pc = "idle"
       /\ ~loadCalled
       /\ controls = <<>>
       /\ ~formShown
       /\ messages \in { << Msg("error", "file_missing", MODEL_PATH, 0) >>,
                         << Msg("error", "file_missing", SCHEMA_PATH, 0) >> }

C1_HaltStep ==
  /\ pc = "require_model" /\ ~modelFile =>
       pc' = "idle" /\ messages' = << Msg("error", "file_missing", MODEL_PATH, 0) >>
  /\ pc = "require_schema" /\ ~schemaFile =>
       pc' = "idle" /\ messages' = << Msg("error", "file_missing", SCHEMA_PATH, 0) >>

C1_MissingFileHalts == [][C1_HaltStep]_vars /\ []C1_RunPastChecks

\* a later run, after one that loaded, halts on the removed schema file
C1_Witness ==
  /\ pc = "idle"
  /\ cache # <<>>
  /\ modelFile /\ ~schemaFile
  /\ FileMissingShown(SCHEMA_PATH)
  /\ ~loadCalled

\* C2 (as claimed): the table handed to the model has exactly the columns
\* feature_order, in that order and of that length, each holding the
\* record's value for the name or null.
C2_ColumnsAreFeatureOrder ==
  X # <<>> =>
    /\ X[1].columns = schema.feature_order
    /\ Len(X[1].values) = Len(schema.feature_order)
    /\ \A i \in DOMAIN X[1].values :
         X[1].values[i] = Get(inputs, schema.feature_order[i], None)

\* C3 (as claimed): no exception of row assembly or of inference leaves the
\* run uncaught.
C3_PredictionFailureCaught == uncaught \notin {"assemble", "predict"}

\* C4: after a failed inference the form is still on the page, the cache is
\* what was loaded, the next run starts with no row, no message and no
\* error, and the outcome of a submission is decided by the cached model
\* and the row built from the controls of that run alone.
C4_FailureLeavesNoTrace ==
  failedBefore =>
    /\ cache = << [model |-> diskModel, schema |-> diskSchema] >>
    /\ pc = "idle" /\ HasMsg("exception") => formShown
    /\ pc \in {"require_model", "require_schema", "load", "form", "assemble"} =>
         X = <<>> /\ messages = <<>> /\ uncaught = ""
    /\ pc = "expander" /\ submitted =>
         /\ inputs = InputsOf(controls)
         /\ X = << DataFrame(schema.feature_order, inputs) >>
         /\ HasMsg("success") <=> ~PredictRaises(model, X[1])
         /\ HasMsg("exception") <=> PredictRaises(model, X[1])

\* a success is shown after an earlier submission failed
C4_Witness == failedBefore /\ pc = "idle" /\ HasMsg("success") /\ ~HasMsg("error")

\* C5 (as claimed): between runs the number of model.predict calls equals
\* the number of submissions that passed the file checks.
C5_OnePredictPerSubmission == pc = "idle" => predictCalls = submits

\* C6: the body of load_model_and_schema runs at most once, the cache holds
\* what that run read, and nothing replaces or changes the cached pair.
C6_CacheStep == cache # <<>> => cache' = cache /\ diskReads' = diskReads

C6_CacheState ==
  /\ diskReads <= 1
  /\ cache = <<>> <=> diskReads = 0
  /\ cache # <<>> => cache = << [model |-> diskModel, schema |-> diskSchema] >>
  /\ pc \in {"form", "assemble", "predict", "expander"} => cache # <<>>

C7_NumericInRange ==
  \A i \in DOMAIN controls :
    controls[i].kind = "number_input" =>
      LET c == controls[i].name
      IN  /\ controls[i].value.t = "num"
          /\ DeclMin(c) <= controls[i].value.n
          /\ controls[i].value.n <= EffMax(c)
          /\ c \notin DOMAIN widgets => controls[i].value.n = Median(RngOf(c))
          /\ c \in DOMAIN widgets =>
               DeclMin(c) <= widgets[c].n /\ widgets[c].n <= EffMax(c)
          /\ c \in DOMAIN inputs => inputs[c] = controls[i].value

\* a submission carries a numeric value the user set to the effective maximum
C7_Witness ==
  /\ pc = "assemble"
  /\ "age" \in DOMAIN widgets
  /\ "age" \in DOMAIN inputs
  /\ inputs["age"].n = EffMax("age")
  /\ inputs["age"].n # Median(RngOf("age"))

\* C8: a rendered numeric control has the declared min; its max is min + 1.0
\* when the declared min and max are equal and the declared max otherwise;
\* its step is max(1.0, (max - min)/100) of the declared bounds.
C8_NumericBoundsAndStep ==
  \A i \in DOMAIN controls :
    controls[i].kind = "number_input" =>
      LET c == controls[i].name
      IN  /\ controls[i].min = DeclMin(c)
          /\ DeclMin(c) = DeclMax(c) => controls[i].max = DeclMin(c) + Unit
          /\ DeclMin(c) # DeclMax(c) => controls[i].max = DeclMax(c)
          /\ controls[i].step = Max(Unit, (DeclMax(c) - DeclMin(c)) \div 100)

\* a control rendered from a range whose min and max are equal
C8_Witness ==
  \E i \in DOMAIN controls :
    /\ controls[i].kind = "number_input"
    /\ DeclMin(controls[i].name) = DeclMax(controls[i].name)
    /\ formShown

\* C9: once the form's loops have run, every categorical field has exactly
\* one control: a selectbox holding a member of its options (the first one
\* until the user chooses) when the list is non-empty, a text_input when it
\* is empty, and the categorical loop has raised nothing.
C9_CategoricalControls ==
  FormRan =>
    \A e \in DOMAIN schema.categorical :
      LET c    == schema.categorical[e].name
          opts == schema.categorical[e].options
          mine == { i \in DOMAIN controls : controls[i].name = c }
      IN  /\ Cardinality(mine) = 1
          /\ \A i \in mine :
               /\ controls[i].value.t = "str"
               /\ opts = <<>> => controls[i].kind = "text_input"
               /\ opts # <<>> =>
                    /\ controls[i].kind = "selectbox"
                    /\ \E j \in DOMAIN opts : opts[j] = controls[i].value.s
                    /\ c \notin DOMAIN widgets => controls[i].value.s = opts[1]

\* a form with an untouched selectbox and a free-text field has been built
C9_Witness ==
  /\ pc = "expander"
  /\ \E i \in DOMAIN controls : controls[i].kind = "text_input"
  /\ \E i \in DOMAIN controls :
       /\ controls[i].kind = "selectbox"
       /\ controls[i].name \notin DOMAIN widgets
       /\ controls[i].value.s = "MS"

\* C10 (as claimed): a run that was a submission and passed the file checks
\* ends with exactly one of the success result and the failure message.
C10_ExactlyOneOutcome ==
  pc = "idle" /\ submitted /\ loadCalled =>
    /\ HasMsg("success") \/ HasMsg("exception")
    /\ ~(HasMsg("success") /\ HasMsg("exception"))

====
